---- MODULE Spec2Model ----
(***************************************************************************)
(* A model of the high-level functions of watershed-workflow               *)
(* (src/workflow/hilev.py): the cleaning pipeline simplify_and_prune with  *)
(* its snap and its boundary simplification, the refinement predicate      *)
(* composed by triangulate, the raster sampler values_from_raster, elevate,*)
(* the painter color_raster_from_shapes, the search find_huc, the getters  *)
(* get_huc, get_hucs, get_split_form_hucs and get_reaches; and of the      *)
(* script src/workflow/go.py.                                              *)
(*                                                                         *)
(* Each function is a small state machine of its own (SpecClean,           *)
(* SpecRefine, SpecSample, ...); the variables of the functions that are   *)
(* not running stay at their idle values.                                  *)
(***************************************************************************)
EXTENDS Integers, Sequences, FiniteSets

VARIABLES
    pc,                 \* simplify_and_prune: position in the function body
    hucs,               \* simplify_and_prune: the SplitHUCs object (mutated in place)
    reaches,            \* simplify_and_prune: the local `reaches`
    rivers,             \* simplify_and_prune: the local `rivers`
    tol,                \* simplify_and_prune: tol = simplify
    prune_reach_size,   \* simplify_and_prune: argument
    cut_intersections,  \* simplify_and_prune: argument
    prune_i,            \* simplify_and_prune: loop index i of the pruning loop (1-based)
    ret,                \* simplify_and_prune: the returned value
    log,                \* simplify_and_prune: the stage calls made so far, in order
    tpc,                    \* triangulate: position in the function body
    refine_max_area,        \* triangulate: argument (None or an area)
    refine_distance,        \* triangulate: argument (None or [near_d, near_a, far_d, far_a])
    refine_max_edge_length, \* triangulate: argument (None or a length)
    refine_funcs,           \* triangulate: the list of criteria
    tri,                    \* triangulate: the triangle the kernel last asked about
    needs_refine,           \* triangulate: what my_refine_func answered for it
    spc,                \* values_from_raster: position in the function body
    raster,             \* values_from_raster: the 2D array, raster[row][col], 0-based
    raster_profile,     \* values_from_raster: [height, width, transform]
    algorithm,          \* values_from_raster: 'nearest' or 'piecewise bilinear'
    xy,                 \* values_from_raster: the point, already in the raster's crs
    out,                \* values_from_raster: the value computed for the point
    reads,              \* values_from_raster: the (row, col) indices used on raster
    raised,             \* values_from_raster: the exception raised, or None
    cpc,                \* color_raster_from_shapes: position in the function body
    target_bounds,      \* color_raster_from_shapes: argument [xmin, ymin, xmax, ymax]
    target_dx,          \* color_raster_from_shapes: argument, the pixel size
    shapes,             \* color_raster_from_shapes: argument, the list of shapes
    shape_colors,       \* color_raster_from_shapes: argument, the color of each shape
    nodata,             \* color_raster_from_shapes: argument
    out_profile,        \* color_raster_from_shapes: [height, width, transform]
    out_bounds,         \* color_raster_from_shapes: the bounds of the grid
    out_colors,         \* color_raster_from_shapes: the array `out`, out[row][col]
    shape_k,            \* color_raster_from_shapes: shapes painted so far
    epc,                \* elevate: position in the function body
    mesh_points,        \* elevate: argument, the (n, 2) array of vertices
    dem,                \* elevate: argument, the 2D array
    dem_profile,        \* elevate: argument [height, width, transform]
    elev_algorithm,     \* elevate: argument `algorithm`
    elev,               \* elevate: the local `elev`
    elevated,           \* elevate: the local `out`, returned
    elev_raised,        \* elevate: the exception raised, or None
    fpc,                \* find_huc: position in the function body
    source,             \* find_huc: argument [lowest_level, order of the sub-units]
    shape,              \* find_huc: argument
    shrink_factor,      \* find_huc: argument, 0 or the default
    hint,               \* find_huc: argument, after huc_str
    shply_s,            \* find_huc: the shrunk shape
    search_hint,        \* find_huc: `hint` of the running _find_huc
    subhus,             \* find_huc: `subhus` of the running _find_huc
    sub_i,              \* find_huc: position of the loop over subhus (1-based)
    result,             \* find_huc: the returned code
    find_raised,        \* find_huc: the exception raised
    visited,            \* find_huc: the sub-units tested so far, in order
    gpc,                \* get_huc(s): position in the function bodies
    entry,              \* get_huc(s): the function the user calls
    digits,             \* get_huc(s): argument of the function the user calls
    rcParams,           \* get_huc(s): workflow.conf.rcParams
    hus,                \* get_huc(s): the coordinates source.get_hucs returns
    get_hucs_digits,    \* get_huc(s): `digits` inside get_hucs
    hu_shapes,          \* get_huc(s): the returned shapes
    rpc,                \* get_reaches: position in the function body
    reaches_s,          \* get_reaches: the local `reaches_s` after the merge
    long,               \* get_reaches: argument
    reaches_out,        \* get_reaches: the returned list
    reaches_raised,     \* get_reaches: the exception raised, or None
    wpc,                \* snap: position in lines 582-584 and in snap
    snap_tol,           \* snap: `tol` of simplify_and_prune
    snap_radius,        \* snap: the parameter snap_radius of snap
    vertices,           \* snap: the vertices of the boundary
    endpoints,          \* snap: the endpoints of the river before the snap
    welded,             \* snap: the endpoints of the river after the snap
    kpc,                \* split simplify: position in simplify_and_prune
    split,              \* split simplify: the SplitHUCs object [segments, polygons, passes]
    split_calls,        \* split simplify: the number of simplify calls made
    split_tol,          \* split simplify: `tol`, the tolerance of the last call
    gopc,               \* go.py: position in the script
    rivers_s,           \* go.py: the merged rivers
    uniques,            \* go.py: the unique piece of each polygon
    intersections,      \* go.py: the pieces shared by two polygons
    all_segs,           \* go.py: the flattened list of LineStrings
    all_segs_simp,      \* go.py: the simplified LineStrings
    pos,                \* go.py: the cursor of the redistribution
    go_raised           \* go.py: the exception raised, or None

cleanVars == <<pc, hucs, reaches, rivers, tol, prune_reach_size,
               cut_intersections, prune_i, ret, log>>

refineVars == <<tpc, refine_max_area, refine_distance, refine_max_edge_length,
                refine_funcs, tri, needs_refine>>

sampleVars == <<spc, raster, raster_profile, algorithm, xy, out, reads, raised>>

colorVars == <<cpc, target_bounds, target_dx, shapes, shape_colors, nodata,
               out_profile, out_bounds, out_colors, shape_k>>

elevateVars == <<epc, mesh_points, dem, dem_profile, elev_algorithm, elev, elevated, elev_raised>>

findVars == <<fpc, source, shape, shrink_factor, hint, shply_s, search_hint, subhus, sub_i, result, find_raised, visited>>

hucsVars == <<gpc, entry, digits, rcParams, hus, get_hucs_digits, hu_shapes>>

reachesVars == <<rpc, reaches_s, long, reaches_out, reaches_raised>>

snapVars == <<wpc, snap_tol, snap_radius, vertices, endpoints, welded>>

splitVars == <<kpc, split, split_calls, split_tol>>

goVars == <<gopc, rivers_s, uniques, intersections, all_segs, all_segs_simp, pos, go_raised>>

vars == <<cleanVars, refineVars, sampleVars, colorVars, elevateVars,
    findVars, hucsVars, reachesVars, snapVars, splitVars, goVars>>

\* the variables of the functions other than the one that runs
notClean == <<refineVars, sampleVars, colorVars, elevateVars, findVars,
    hucsVars, reachesVars, snapVars, splitVars, goVars>>

notRefine == <<cleanVars, sampleVars, colorVars, elevateVars, findVars,
    hucsVars, reachesVars, snapVars, splitVars, goVars>>

notSample == <<cleanVars, refineVars, colorVars, elevateVars, findVars,
    hucsVars, reachesVars, snapVars, splitVars, goVars>>

notColor == <<cleanVars, refineVars, sampleVars, elevateVars, findVars,
    hucsVars, reachesVars, snapVars, splitVars, goVars>>

notElevate == <<cleanVars, refineVars, sampleVars, colorVars, findVars,
    hucsVars, reachesVars, snapVars, splitVars, goVars>>

notFind == <<cleanVars, refineVars, sampleVars, colorVars, elevateVars,
    hucsVars, reachesVars, snapVars, splitVars, goVars>>

notHucs == <<cleanVars, refineVars, sampleVars, colorVars, elevateVars,
    findVars, reachesVars, snapVars, splitVars, goVars>>

notReaches == <<cleanVars, refineVars, sampleVars, colorVars, elevateVars,
    findVars, hucsVars, snapVars, splitVars, goVars>>

notSnap == <<cleanVars, refineVars, sampleVars, colorVars, elevateVars,
    findVars, hucsVars, reachesVars, splitVars, goVars>>

notSplit == <<cleanVars, refineVars, sampleVars, colorVars, elevateVars,
    findVars, hucsVars, reachesVars, snapVars, goVars>>

notGo == <<cleanVars, refineVars, sampleVars, colorVars, elevateVars,
    findVars, hucsVars, reachesVars, snapVars, splitVars>>

\* Python's None
None == "None"

-----------------------------------------------------------------------------
(* Bounds of the model *)

MaxReaches == 3
MaxNets == 2
MaxPrune == 3
MaxTol == 2
MaxArea == 2
MaxDist == 2
MaxEdge == 1
MaxDim == 3
MaxDx == 2
MaxSlope == 1
Margin == 2
MaxCoord == 2
MaxPixel == 2
MaxShapes == 2
MaxColor == 2
MaxMesh == 2
MaxDepth == 3
MaxDigits == 2
MaxLong == 2
MaxVertices == 2
MaxPiece == 3
MaxCalls == 2

-----------------------------------------------------------------------------
(***************************************************************************)
(* simplify_and_prune (hilev.py 521-606)                                   *)
(*                                                                         *)
(* A reach is a record [id, inside, net]: `inside` abstracts the geometric *)
(* test "the reach intersects the buffered boundary exterior", `net`       *)
(* abstracts endpoint adjacency (the river network the reach belongs to).  *)
(* A tree is the record [ids, cleaned, snapped]: the ids of its reaches    *)
(* and what has been done to their geometry; len(tree) is its reach count. *)
(***************************************************************************)

Range(s) == {s[k] : k \in 1..Len(s)}

\* list.pop(i): the list without its i-th element (1-based here)
Pop(s, i) == [k \in 1..(Len(s) - 1) |-> IF k < i THEN s[k] ELSE s[k + 1]]

\* hucs.exterior(): the outer boundary of the collection, as it is now
exterior(h) == [simplified |-> h.simplified, snapped |-> h.snapped]

\* workflow.hydrography.filter_rivers_to_shape(shape, reaches, tol): the
\* reaches that are not wholly outside shape.buffer(tol), in order
filter_rivers_to_shape(shp, rs, t) == SelectSeq(rs, LAMBDA r : r.inside)

\* the networks of a list of reaches, in order of first appearance
RECURSIVE NetsOf(_)
NetsOf(rs) ==
    IF rs = <<>> THEN <<>>
    ELSE LET front == NetsOf(SubSeq(rs, 1, Len(rs) - 1))
             n == rs[Len(rs)].net
         IN IF n \in Range(front) THEN front ELSE Append(front, n)

RECURSIVE IdsOfNet(_, _)
IdsOfNet(rs, n) ==
    IF rs = <<>> THEN <<>>
    ELSE LET front == IdsOfNet(SubSeq(rs, 1, Len(rs) - 1), n)
             r == rs[Len(rs)]
         IN IF r.net = n THEN Append(front, r.id) ELSE front

\* workflow.hydrography.make_global_tree(reaches): one tree per unconnected
\* network; a tree carries the ids of its reaches and the state of its geometry
make_global_tree(rs) ==
    LET nets == NetsOf(rs)
    IN [k \in 1..Len(nets) |->
           [ids |-> IdsOfNet(rs, nets[k]), cleaned |-> FALSE, snapped |-> FALSE]]

\* len(tree): the number of reaches of a tree
TreeLen(tree) == Len(tree.ids)

\* workflow.hydrography.cleanup(rivers, simplify_tol, prune_tol, snap_tol):
\* simplifies the geometry of every reach of every tree, in place
cleanup(rv, t1, t2, t3) == [k \in 1..Len(rv) |-> [rv[k] EXCEPT !.cleaned = TRUE]]

\* workflow.split_hucs.simplify(hucs, tol): simplifies the stored pieces, in place
simplify(h, t) == [h EXCEPT !.simplified = TRUE]

\* workflow.hydrography.snap(hucs, rivers, tol, snap_radius, cut_intersections):
\* welds river endpoints onto the boundary; returns the rivers and mutates hucs
snap_rivers(h, rv, t, radius, cut) == [k \in 1..Len(rv) |-> [rv[k] EXCEPT !.snapped = TRUE]]

snap_hucs(h, rv, t, radius, cut) ==
    [h EXCEPT !.snapped = TRUE, !.cut = cut, !.snap_radius = radius]

\* `len(reaches) is 0` (line 559)
NoReaches(rs) == Len(rs) = 0

\* a test that never sees the empty forest
NoRiversNever(rv) == FALSE

\* `len(rivers) is 0` (line 573)
NoRivers(rv) == Len(rv) = 0

\* the test with <= for <
PruneTestLeq(ltree, size) == ltree <= size

\* `ltree < prune_reach_size` (line 568)
PruneTest(ltree, size) == ltree < size

\* one record of the log: the stage called, what it was handed and what it left
Entry(stage, hin, rin, hout, rout) ==
    [stage |-> stage, hucs_in |-> hin, rivers_in |-> rin,
     hucs_out |-> hout, rivers_out |-> rout]

ReachSeqs ==
    UNION {[1..n -> [inside : BOOLEAN, net : 1..MaxNets]] : n \in 0..MaxReaches}

WithIds(f) == [k \in DOMAIN f |-> [id |-> k, inside |-> f[k].inside, net |-> f[k].net]]

RawHucs == [simplified |-> FALSE, snapped |-> FALSE, cut |-> FALSE, snap_radius |-> 0]

\* simplify_and_prune is not running
IdleClean ==
    /\ pc = "idle"
    /\ hucs = RawHucs
    /\ reaches = <<>>
    /\ rivers = <<>>
    /\ tol = 0
    /\ prune_reach_size = 0
    /\ cut_intersections = FALSE
    /\ prune_i = 0
    /\ ret = None
    /\ log = <<>>

StartClean ==
    /\ pc = "filter"
    /\ hucs = RawHucs
    /\ reaches \in {WithIds(f) : f \in ReachSeqs}
    /\ rivers = <<>>
    /\ tol \in 1..MaxTol
    /\ prune_reach_size \in 0..MaxPrune
    /\ cut_intersections \in BOOLEAN
    /\ prune_i = 0
    /\ ret = None
    /\ log = <<>>

\* a filter that simplifies the boundary before it looks at the reaches
FilterAfterSimplify ==
    /\ pc = "filter"
    /\ hucs' = simplify(hucs, tol)
    /\ LET kept == filter_rivers_to_shape(exterior(hucs'), reaches, tol)
       IN /\ reaches' = kept
          /\ log' = Append(log, Entry("filter_rivers_to_shape", exterior(hucs), reaches,
                                      exterior(hucs), kept))
          /\ IF NoReaches(kept)
             THEN pc' = "return_560" /\ ret' = kept
             ELSE pc' = "make_global_tree" /\ ret' = ret
    /\ UNCHANGED <<rivers, tol, prune_reach_size, cut_intersections, prune_i>>
    /\ UNCHANGED notClean

\* lines 558-560
Filter ==
    /\ pc = "filter"
    /\ LET kept == filter_rivers_to_shape(exterior(hucs), reaches, tol)
       IN /\ reaches' = kept
          /\ log' = Append(log, Entry("filter_rivers_to_shape", exterior(hucs), reaches,
                                      exterior(hucs), kept))
          /\ IF NoReaches(kept)
             THEN pc' = "return_560" /\ ret' = kept
             ELSE pc' = "make_global_tree" /\ ret' = ret
    /\ UNCHANGED <<hucs, rivers, tol, prune_reach_size, cut_intersections, prune_i>>
    /\ UNCHANGED notClean

\* lines 562-566: build the forest, enter `for i in reversed(range(len(rivers)))`
MakeTree ==
    /\ pc = "make_global_tree"
    /\ rivers' = make_global_tree(reaches)
    /\ log' = Append(log, Entry("make_global_tree", hucs, reaches, hucs, rivers'))
    /\ prune_i' = Len(rivers')
    /\ pc' = "prune"
    /\ UNCHANGED <<hucs, reaches, tol, prune_reach_size, cut_intersections, ret>>
    /\ UNCHANGED notClean

\* lines 567-572: one iteration of the pruning loop
PruneStep ==
    /\ pc = "prune"
    /\ prune_i >= 1
    /\ LET ltree == TreeLen(rivers[prune_i])
       IN rivers' = IF PruneTest(ltree, prune_reach_size)
                    THEN Pop(rivers, prune_i)
                    ELSE rivers
    /\ prune_i' = prune_i - 1
    /\ UNCHANGED <<pc, hucs, reaches, tol, prune_reach_size, cut_intersections, ret, log>>
    /\ UNCHANGED notClean

\* lines 573-574: the loop is over
PruneEnd ==
    /\ pc = "prune"
    /\ prune_i = 0
    /\ log' = Append(log, Entry("prune", hucs, log[Len(log)].rivers_out, hucs, rivers))
    /\ IF NoRivers(rivers)
       THEN pc' = "return_574" /\ ret' = rivers
       ELSE pc' = "cleanup" /\ ret' = ret
    /\ UNCHANGED <<hucs, reaches, rivers, tol, prune_reach_size, cut_intersections, prune_i>>
    /\ UNCHANGED notClean

\* a pipeline that forgets the river cleanup
CleanupSkipped ==
    /\ pc = "cleanup"
    /\ pc' = "simplify"
    /\ UNCHANGED <<hucs, reaches, rivers, tol, prune_reach_size, cut_intersections,
                   prune_i, ret, log>>
    /\ UNCHANGED notClean

\* lines 576-577: workflow.hydrography.cleanup(rivers, tol, tol, tol)
Cleanup ==
    /\ pc = "cleanup"
    /\ rivers' = cleanup(rivers, tol, tol, tol)
    /\ log' = Append(log, Entry("cleanup", hucs, rivers, hucs, rivers'))
    /\ pc' = "simplify"
    /\ UNCHANGED <<hucs, reaches, tol, prune_reach_size, cut_intersections, prune_i, ret>>
    /\ UNCHANGED notClean

\* lines 579-580: workflow.split_hucs.simplify(hucs, tol)
SimplifyHucs ==
    /\ pc = "simplify"
    /\ hucs' = simplify(hucs, tol)
    /\ log' = Append(log, Entry("simplify", hucs, rivers, hucs', rivers))
    /\ pc' = "snap"
    /\ UNCHANGED <<reaches, rivers, tol, prune_reach_size, cut_intersections, prune_i, ret>>
    /\ UNCHANGED notClean

\* lines 582-606: rivers = workflow.hydrography.snap(hucs, rivers, tol, 3*tol,
\* cut_intersections); the diagnostics; return rivers
Snap ==
    /\ pc = "snap"
    /\ hucs' = snap_hucs(hucs, rivers, tol, 3 * tol, cut_intersections)
    /\ rivers' = snap_rivers(hucs, rivers, tol, 3 * tol, cut_intersections)
    /\ log' = Append(log, Entry("snap", hucs, rivers, hucs', rivers'))
    /\ pc' = "return_606"
    /\ ret' = rivers'
    /\ UNCHANGED <<reaches, tol, prune_reach_size, cut_intersections, prune_i>>
    /\ UNCHANGED notClean

NextClean ==
    \/ Filter
    \/ MakeTree
    \/ PruneStep
    \/ PruneEnd
    \/ Cleanup
    \/ SimplifyHucs
    \/ Snap

-----------------------------------------------------------------------------
(***************************************************************************)
(* triangulate (hilev.py 608-721): the refinement predicate                *)
(*                                                                         *)
(* The meshing kernel calls my_refine_func(vertices, area).  A triangle is *)
(* the record [area, dist, edge]: its area, the distance of its centroid   *)
(* to the river network and the length of its longest edge, which is all   *)
(* the criteria read of it.  Areas, distances and lengths are integers;    *)
(* the interpolated ceiling is compared by cross-multiplication, which is  *)
(* exact.                                                                  *)
(***************************************************************************)

\* An optional argument of triangulate is the empty tuple when it is None, the
\* tuple of the number when it is a number, and the list itself for
\* refine_distance.
NoArg == <<>>

\* workflow.triangulation.refine_from_max_area(max_area)
refine_from_max_area(A) == [kind |-> "max_area", max_area |-> A]

\* workflow.triangulation.refine_from_river_distance(near_distance, near_area,
\* away_distance, away_area, rivers)
refine_from_river_distance(near_d, near_a, far_d, far_a) ==
    [kind |-> "river_distance", near_d |-> near_d, near_a |-> near_a,
     far_d |-> far_d, far_a |-> far_a]

\* workflow.triangulation.refine_from_max_edge_length(edge_length)
refine_from_max_edge_length(L) == [kind |-> "max_edge_length", max_edge |-> L]

\* the call of a criterion rf on a triangle: rf(vertices, area)
Call(rf, t) ==
    CASE rf.kind = "max_area" -> t.area > rf.max_area
      [] rf.kind = "max_edge_length" -> t.edge > rf.max_edge
      [] rf.kind = "river_distance" ->
            IF t.dist > rf.far_d THEN t.area > rf.far_a
            ELSE IF t.dist < rf.near_d THEN t.area > rf.near_a
            ELSE \* area > near_a + (dist - near_d) / (far_d - near_d) * (far_a - near_a)
                 (t.area - rf.near_a) * (rf.far_d - rf.near_d)
                     > (t.dist - rf.near_d) * (rf.far_a - rf.near_a)

\* line 678: refine_from_river_distance(*refine_distance, rivers), with the
\* areas and the distances of the list taken for each other
DistanceCriterionSwapped(rd) == refine_from_river_distance(rd[2], rd[1], rd[4], rd[3])

\* line 678: refine_from_river_distance(*refine_distance, rivers)
DistanceCriterion(rd) == refine_from_river_distance(rd[1], rd[2], rd[3], rd[4])

\* lines 674-680: the list of criteria, one for each argument that is not None
BuildRefineFuncs(max_area, distance, max_edge) ==
    LET f0 == <<>>
        f1 == IF max_area # NoArg THEN Append(f0, refine_from_max_area(max_area[1])) ELSE f0
        f2 == IF distance # NoArg THEN Append(f1, DistanceCriterion(distance)) ELSE f1
        f3 == IF max_edge # NoArg
              THEN Append(f2, refine_from_max_edge_length(max_edge[1])) ELSE f2
    IN f3

\* all(rf(*args) for rf in refine_funcs)
RECURSIVE AllOf(_, _)
AllOf(funcs, t) ==
    IF funcs = <<>> THEN TRUE
    ELSE IF ~Call(Head(funcs), t) THEN FALSE
    ELSE AllOf(Tail(funcs), t)

\* any(rf(*args) for rf in refine_funcs): true at the first criterion that is
\* true, false when the list is exhausted
RECURSIVE AnyOf(_, _)
AnyOf(funcs, t) ==
    IF funcs = <<>> THEN FALSE
    ELSE IF Call(Head(funcs), t) THEN TRUE
    ELSE AnyOf(Tail(funcs), t)

\* lines 681-682
my_refine_func(funcs, t) == AnyOf(funcs, t)

Triangles == [area : 0..(MaxArea + 1), dist : 0..(MaxDist + 1), edge : 0..(MaxEdge + 1)]

\* [near_d, near_a, far_d, far_a] with near_d < far_d
Distances ==
    {<<nd, na, fd, fa>> : nd \in 0..MaxDist, na \in 0..MaxArea,
                          fd \in 0..MaxDist, fa \in 0..MaxArea}

NoTriangle == [area |-> 0, dist |-> 0, edge |-> 0]

\* triangulate is not running
IdleRefine ==
    /\ tpc = "idle"
    /\ refine_max_area = NoArg
    /\ refine_distance = NoArg
    /\ refine_max_edge_length = NoArg
    /\ refine_funcs = <<>>
    /\ tri = NoTriangle
    /\ needs_refine = FALSE

StartRefine ==
    /\ tpc = "build"
    /\ refine_max_area \in {NoArg} \cup {<<a>> : a \in 0..MaxArea}
    /\ refine_distance \in {NoArg} \cup {rd \in Distances : rd[1] < rd[3]}
    /\ refine_max_edge_length \in {NoArg} \cup {<<l>> : l \in 0..MaxEdge}
    /\ refine_funcs = <<>>
    /\ tri = NoTriangle
    /\ needs_refine = FALSE

\* lines 674-682
Build ==
    /\ tpc = "build"
    /\ refine_funcs' = BuildRefineFuncs(refine_max_area, refine_distance,
                                        refine_max_edge_length)
    /\ tpc' = "kernel"
    /\ UNCHANGED <<refine_max_area, refine_distance, refine_max_edge_length,
                   tri, needs_refine>>
    /\ UNCHANGED notRefine

\* a predicate that keeps state between its calls: a criterion that has
\* answered true is taken off the list
KernelCallConsuming ==
    /\ tpc = "kernel"
    /\ \E t \in Triangles :
          /\ tri' = t
          /\ needs_refine' = my_refine_func(refine_funcs, t)
          /\ refine_funcs' = IF refine_funcs # <<>> /\ Call(Head(refine_funcs), t)
                             THEN Tail(refine_funcs) ELSE refine_funcs
    /\ tpc' = "asked"
    /\ UNCHANGED <<refine_max_area, refine_distance, refine_max_edge_length>>
    /\ UNCHANGED notRefine

\* lines 684-688 and 702: the kernel (or the diagnostics) asks about a triangle
KernelCall ==
    /\ tpc = "kernel"
    /\ \E t \in Triangles :
          /\ tri' = t
          /\ needs_refine' = my_refine_func(refine_funcs, t)
    /\ tpc' = "asked"
    /\ UNCHANGED <<refine_max_area, refine_distance, refine_max_edge_length, refine_funcs>>
    /\ UNCHANGED notRefine

\* the kernel goes on with the next triangle
KernelNext ==
    /\ tpc = "asked"
    /\ tpc' = "kernel"
    /\ tri' = NoTriangle
    /\ needs_refine' = FALSE
    /\ UNCHANGED <<refine_max_area, refine_distance, refine_max_edge_length, refine_funcs>>
    /\ UNCHANGED notRefine

NextRefine ==
    \/ Build
    \/ KernelCall
    \/ KernelNext

-----------------------------------------------------------------------------
(***************************************************************************)
(* values_from_raster (hilev.py 761-817), for one point of `points`        *)
(*                                                                         *)
(* Numbers.  World coordinates are counted in half units, so that pixel    *)
(* centres are representable: the point xy = <<X, Y>> is (X/2, Y/2).  With *)
(* a pixel size of dx world units a pixel coordinate is then a multiple of *)
(* 1/Q, Q = 2 dx.  The constant eps = 1.e-10 of line 790 is kept symbolic: *)
(* a pixel coordinate is the record [n, e] standing for n/Q + e * eps, and *)
(* eps is positive and smaller than 1/Q, which decides every comparison,   *)
(* floor and ceil below.  An interpolated value is the record [c0, c1, c2] *)
(* standing for (c0 + c1 * eps + c2 * eps^2) / Q^2; it is computed in      *)
(* exact arithmetic.                                                       *)
(*                                                                         *)
(* Indexing.  raster[i, j] follows numpy: an index in [-n, 0) counts from  *)
(* the end, an index outside [-n, n) raises IndexError.                    *)
(***************************************************************************)

\* the denominator of pixel coordinates under a profile
Q(profile) == 2 * profile.transform.dx

Num(n, e) == [n |-> n, e |-> e]

Less(a, b) == a.n < b.n \/ (a.n = b.n /\ a.e < b.e)

\* Python's min(a, b) and max(a, b)
min(a, b) == IF Less(b, a) THEN b ELSE a

max(a, b) == IF Less(a, b) THEN b ELSE a

\* math.floor and math.ceil of n/q + e * eps
floor(a, q) ==
    IF a.n % q = 0 /\ a.e < 0 THEN (a.n \div q) - 1 ELSE a.n \div q

ceil(a, q) ==
    IF a.n % q = 0 /\ a.e <= 0 THEN a.n \div q ELSE (a.n \div q) + 1

\* a % 1
mod1(a, q) == Num(a.n - floor(a, q) * q, a.e)

\* the value v, exactly
Exact(v, q) == [c0 |-> v * q * q, c1 |-> 0, c2 |-> 0]

\* ~raster_profile['transform'] applied to xy: the fractional (col, row) of
\* the point, for the transform from_origin(west, north, dx, dx)
invtransform(profile, p) ==
    LET t == profile.transform
    IN [col |-> Num(p[1] - 2 * t.west, 0), row |-> Num(2 * t.north - p[2], 0)]

\* raster[row, col]: the index numpy resolves it to, or none
InRange(idx, n) == -n <= idx /\ idx < n

Resolve(idx, n) == IF idx < 0 THEN idx + n ELSE idx

\* lines 804-805: max(eps, min(dimension - 1 - eps, x))
clamp(x, dimension, q) == max(Num(0, 1), min(Num((dimension - 1) * q, -1), x))

\* lines 796-816 for one point: the indices read, the error raised and the
\* value stored in out[k]
bilinear(rast, profile, p) ==
    LET q == Q(profile)
        h == profile.height
        w == profile.width
        ji == invtransform(profile, p)
        \* center on pixel: i -= 0.5, j -= 0.5
        i0 == Num(ji.row.n - (q \div 2), 0)
        j0 == Num(ji.col.n - (q \div 2), 0)
        i == clamp(i0, h, q)
        j == clamp(j0, w, q)
        fi == floor(i, q)
        ci == ceil(i, q)
        fj == floor(j, q)
        cj == ceil(j, q)
        \* lines 807-810, in the order of the four reads
        box == <<(<<fi, fj>>), (<<fi, cj>>), (<<ci, fj>>), (<<ci, cj>>)>>
        good(rc) == InRange(rc[1], h) /\ InRange(rc[2], w)
        ok == \A k \in 1..4 : good(box[k])
        \* a read that raises ends the call: the reads after it are not made
        used == {box[k] : k \in {n \in 1..4 : \A m \in 1..(n - 1) : good(box[m])}}
        at(r, c) == rast[Resolve(r, h)][Resolve(c, w)]
        ii == mod1(i, q)
        jj == mod1(j, q)
        \* up = mybox[0,0] + jj * (mybox[0,1] - mybox[0,0]), as (upN + upE eps) / q
        upN == at(fi, fj) * q + jj.n * (at(fi, cj) - at(fi, fj))
        upE == jj.e * (at(fi, cj) - at(fi, fj)) * q
        \* dn = mybox[1,0] + jj * (mybox[1,1] - mybox[1,0])
        dnN == at(ci, fj) * q + jj.n * (at(ci, cj) - at(ci, fj))
        dnE == jj.e * (at(ci, cj) - at(ci, fj)) * q
    IN [reads |-> used,
        raised |-> IF ok THEN None ELSE "IndexError",
        \* out[k] = up + (dn - up) * ii
        out |-> IF ok
                THEN [c0 |-> upN * q + (dnN - upN) * ii.n,
                      c1 |-> upE * q + (dnN - upN) * ii.e * q + (dnE - upE) * ii.n,
                      c2 |-> (dnE - upE) * ii.e * q]
                ELSE None]

\* rasterio.transform.rowcol(transform, xs, ys): floor of the inverse transform
rowcol(profile, p) ==
    LET ji == invtransform(profile, p)
    IN <<floor(ji.row, Q(profile)), floor(ji.col, Q(profile))>>

\* line 788: raster[rowcol(...)]
nearest(rast, profile, p) ==
    LET rc == rowcol(profile, p)
        h == profile.height
        w == profile.width
        ok == InRange(rc[1], h) /\ InRange(rc[2], w)
    IN [reads |-> {rc},
        raised |-> IF ok THEN None ELSE "IndexError",
        out |-> IF ok
                THEN Exact(rast[Resolve(rc[1], h)][Resolve(rc[2], w)], Q(profile))
                ELSE None]

Profiles ==
    {[height |-> h, width |-> w, transform |-> [west |-> 0, north |-> h * dx, dx |-> dx]] :
        h \in 1..MaxDim, w \in 1..MaxDim, dx \in 1..MaxDx}

\* the rasters of a profile: the planes a * row + b * col
Rasters(profile) ==
    {[r \in 0..(profile.height - 1) |-> [c \in 0..(profile.width - 1) |-> a * r + b * c]] :
        a \in 0..MaxSlope, b \in 0..MaxSlope}

\* the points in and around the extent of the raster
Points(profile) ==
    (-Margin..(2 * profile.width * profile.transform.dx + Margin))
        \X (-Margin..(2 * profile.height * profile.transform.dx + Margin))

NoProfile == [height |-> 0, width |-> 0, transform |-> [west |-> 0, north |-> 0, dx |-> 0]]

\* values_from_raster is not running
IdleSample ==
    /\ spc = "idle"
    /\ raster = <<>>
    /\ raster_profile = NoProfile
    /\ algorithm = None
    /\ xy = <<0, 0>>
    /\ out = None
    /\ reads = {}
    /\ raised = None

StartSample ==
    /\ spc = "call"
    /\ raster_profile \in Profiles
    /\ raster \in Rasters(raster_profile)
    /\ algorithm \in {"nearest", "piecewise bilinear"}
    /\ xy \in Points(raster_profile)
    /\ out = None
    /\ reads = {}
    /\ raised = None

\* lines 787-788
SampleNearest ==
    /\ spc = "call"
    /\ algorithm = "nearest"
    /\ LET res == nearest(raster, raster_profile, xy)
       IN /\ reads' = res.reads
          /\ raised' = res.raised
          /\ out' = res.out
          /\ spc' = IF res.raised = None THEN "return_817" ELSE "raised"
    /\ UNCHANGED <<raster, raster_profile, algorithm, xy>>
    /\ UNCHANGED notSample

\* lines 789-816
SampleBilinear ==
    /\ spc = "call"
    /\ algorithm = "piecewise bilinear"
    /\ LET res == bilinear(raster, raster_profile, xy)
       IN /\ reads' = res.reads
          /\ raised' = res.raised
          /\ out' = res.out
          /\ spc' = IF res.raised = None THEN "return_817" ELSE "raised"
    /\ UNCHANGED <<raster, raster_profile, algorithm, xy>>
    /\ UNCHANGED notSample

NextSample ==
    \/ SampleNearest
    \/ SampleBilinear

-----------------------------------------------------------------------------
(***************************************************************************)
(* color_raster_from_shapes (hilev.py 820-890)                             *)
(*                                                                         *)
(* The target bounds and the pixel size are integers.  A shape is the      *)
(* strip <<a, b>> of the points with a <= x < b; rasterio's geometry_mask  *)
(* marks the pixels whose centre lies in the shape.  Halves are exact:     *)
(* x - dx/2 is carried as the integer 2x - dx.                             *)
(***************************************************************************)

\* np.round(n / 2): to the nearest integer, halves to the even one
round_half(n) ==
    LET k == n \div 2
    IN IF n % 2 = 0 THEN k
       ELSE IF k % 2 = 0 THEN k ELSE k + 1

\* int(np.ceil(n / d)), d > 0
ceil_div(n, d) == IF n % d = 0 THEN n \div d ELSE (n \div d) + 1

\* line 865: int(np.ceil((target_y1 - target_bounds[1] - target_dx/2)/target_dx))
grid_height(bounds, dx, y1) == ceil_div(2 * y1 - 2 * bounds[2] - dx, 2 * dx)

\* line 864: int(np.ceil((target_bounds[2] + target_dx/2 - target_x0)/target_dx))
grid_width(bounds, dx, x0) == ceil_div(2 * bounds[3] + dx - 2 * x0, 2 * dx)

\* lines 862-867 and 876-884: the grid of the canvas
grid(bounds, dx) ==
    LET target_x0 == round_half(2 * bounds[1] - dx)
        target_y1 == round_half(2 * bounds[4] + dx)
        width == grid_width(bounds, dx, target_x0)
        height == grid_height(bounds, dx, target_y1)
    IN [width |-> width,
        height |-> height,
        transform |-> [west |-> target_x0, north |-> target_y1, dx |-> dx],
        out_bounds |-> <<target_x0, target_y1 - dx * height,
                         target_x0 + dx * width, target_y1>>]

\* rasterio.features.geometry_mask([p,], out.shape, transform, invert=True):
\* true at the pixels whose centre is in the shape
geometry_mask(p, profile, r, c) ==
    LET cx2 == 2 * profile.transform.west + (2 * c + 1) * profile.transform.dx
    IN 2 * p[1] <= cx2 /\ cx2 < 2 * p[2]

\* out[mask] = p_id, but only where nothing was painted before
paint_first_wins(canvas, p, p_id, profile, nd) ==
    [r \in DOMAIN canvas |->
        [c \in DOMAIN canvas[r] |->
            IF geometry_mask(p, profile, r, c) /\ canvas[r][c] = nd
            THEN p_id ELSE canvas[r][c]]]

\* lines 888-889: out[mask] = p_id
paint(canvas, p, p_id, profile, nd) ==
    [r \in DOMAIN canvas |->
        [c \in DOMAIN canvas[r] |->
            IF geometry_mask(p, profile, r, c) THEN p_id ELSE canvas[r][c]]]

Strips == {<<a, b>> : a \in 0..MaxCoord, b \in 0..MaxCoord}

Bounds ==
    {<<xmin, ymin, xmax, ymax>> : xmin \in 0..MaxCoord, ymin \in 0..MaxCoord,
                                  xmax \in 0..MaxCoord, ymax \in 0..MaxCoord}

\* color_raster_from_shapes is not running
IdleColor ==
    /\ cpc = "idle"
    /\ target_bounds = <<0, 0, 0, 0>>
    /\ target_dx = 0
    /\ shapes = <<>>
    /\ shape_colors = <<>>
    /\ nodata = 0
    /\ out_profile = NoProfile
    /\ out_bounds = <<0, 0, 0, 0>>
    /\ out_colors = <<>>
    /\ shape_k = 0

\* the arguments: bounds with xmin < xmax and ymin < ymax, and as many colors
\* as shapes (line 857)
StartColor ==
    /\ cpc = "call"
    /\ target_bounds \in {b \in Bounds : b[1] < b[3] /\ b[2] < b[4]}
    /\ target_dx \in 1..MaxPixel
    /\ \E n \in 0..MaxShapes :
          /\ shapes \in [1..n -> {st \in Strips : st[1] < st[2]}]
          /\ shape_colors \in [1..n -> 1..MaxColor]
    /\ nodata = -1
    /\ out_profile = NoProfile
    /\ out_bounds = <<0, 0, 0, 0>>
    /\ out_colors = <<>>
    /\ shape_k = 0

\* line 858: assert(len(shapes) > 0)
AssertShapes ==
    /\ cpc = "call"
    /\ Len(shapes) = 0
    /\ cpc' = "raised"
    /\ UNCHANGED <<target_bounds, target_dx, shapes, shape_colors, nodata,
                   out_profile, out_bounds, out_colors, shape_k>>
    /\ UNCHANGED notColor

\* lines 860-886: the grid, and out = nodata * np.ones((height, width), dtype)
MakeCanvas ==
    /\ cpc = "call"
    /\ Len(shapes) > 0
    /\ LET g == grid(target_bounds, target_dx)
       IN /\ out_profile' = [height |-> g.height, width |-> g.width,
                             transform |-> g.transform]
          /\ out_bounds' = g.out_bounds
          /\ out_colors' = [r \in 0..(g.height - 1) |-> [c \in 0..(g.width - 1) |-> nodata]]
    /\ shape_k' = 0
    /\ cpc' = "paint"
    /\ UNCHANGED <<target_bounds, target_dx, shapes, shape_colors, nodata>>
    /\ UNCHANGED notColor

\* lines 887-889: one iteration of `for p, p_id in zip(shapes, shape_colors)`
Paint ==
    /\ cpc = "paint"
    /\ shape_k < Len(shapes)
    /\ out_colors' = paint(out_colors, shapes[shape_k + 1], shape_colors[shape_k + 1],
                           out_profile, nodata)
    /\ shape_k' = shape_k + 1
    /\ UNCHANGED <<cpc, target_bounds, target_dx, shapes, shape_colors, nodata,
                   out_profile, out_bounds>>
    /\ UNCHANGED notColor

\* line 890: return out, out_profile, out_bounds
ReturnColors ==
    /\ cpc = "paint"
    /\ shape_k = Len(shapes)
    /\ cpc' = "return_890"
    /\ UNCHANGED <<target_bounds, target_dx, shapes, shape_colors, nodata,
                   out_profile, out_bounds, out_colors, shape_k>>
    /\ UNCHANGED notColor

NextColor ==
    \/ AssertShapes
    \/ MakeCanvas
    \/ Paint
    \/ ReturnColors

-----------------------------------------------------------------------------
(***************************************************************************)
(* elevate (hilev.py 723-758)                                              *)
(*                                                                         *)
(* mesh_points is the sequence of the rows <<X, Y>> of the (n, 2) array,   *)
(* in the half units of values_from_raster and already in the crs of the   *)
(* dem.  The returned (n, 3) array is the sequence of its rows; its third  *)
(* column holds interpolated values, the records [c0, c1, c2].             *)
(***************************************************************************)

\* lines 785-817 for the whole array `points`: the array `out`, or the
\* exception of the first index that numpy rejects
values_from_raster(points, rast, profile, alg) ==
    LET one(p) == IF alg = "nearest" THEN nearest(rast, profile, p)
                  ELSE bilinear(rast, profile, p)
        bad == {k \in 1..Len(points) : one(points[k]).raised # None}
    IN [raised |-> IF bad = {} THEN None ELSE "IndexError",
        out |-> IF bad = {} THEN [k \in 1..Len(points) |-> one(points[k]).out]
                ELSE None]

\* line 754: np.zeros((n, 3), 'd'), z as an exact value
zeros(n) == [k \in 1..n |-> <<0, 0, [c0 |-> 0, c1 |-> 0, c2 |-> 0]>>]

\* line 755: out[:,0:2] = mesh_points
assign_xy(o, points) == [k \in 1..Len(o) |-> <<points[k][1], points[k][2], o[k][3]>>]

\* out[:,2] = elev[::-1]
assign_z_reversed(o, el) == [k \in 1..Len(o) |-> <<o[k][1], o[k][2], el[Len(o) + 1 - k]>>]

\* line 756: out[:,2] = elev
assign_z(o, el) == [k \in 1..Len(o) |-> <<o[k][1], o[k][2], el[k]>>]

\* the dems: square rasters of unit pixels
DemProfiles == {p \in Profiles : p.height = p.width /\ p.transform.dx = 1}

\* the vertices of a mesh: points of the diagonal, in and around the dem
MeshPoints(profile) == {p \in Points(profile) : p[1] = p[2]}

SeqsUpTo(S, n) == UNION {[1..m -> S] : m \in 0..n}

\* elevate is not running
IdleElevate ==
    /\ epc = "idle"
    /\ mesh_points = <<>>
    /\ dem = <<>>
    /\ dem_profile = NoProfile
    /\ elev_algorithm = None
    /\ elev = None
    /\ elevated = None
    /\ elev_raised = None

StartElevate ==
    /\ epc = "call"
    /\ dem_profile \in DemProfiles
    /\ dem \in Rasters(dem_profile)
    /\ elev_algorithm \in {"nearest", "piecewise bilinear"}
    /\ mesh_points \in SeqsUpTo(MeshPoints(dem_profile), MaxMesh)
    /\ elev = None
    /\ elevated = None
    /\ elev_raised = None

\* line 751
ElevateSample ==
    /\ epc = "call"
    /\ LET res == values_from_raster(mesh_points, dem, dem_profile, elev_algorithm)
       IN /\ elev' = res.out
          /\ elev_raised' = res.raised
          /\ epc' = IF res.raised = None THEN "line_754" ELSE "raised"
    /\ UNCHANGED <<mesh_points, dem, dem_profile, elev_algorithm, elevated>>
    /\ UNCHANGED notElevate

\* lines 754-758
ElevateAssemble ==
    /\ epc = "line_754"
    /\ elevated' = assign_z(assign_xy(zeros(Len(mesh_points)), mesh_points), elev)
    /\ epc' = "return_758"
    /\ UNCHANGED <<mesh_points, dem, dem_profile, elev_algorithm, elev, elev_raised>>
    /\ UNCHANGED notElevate

NextElevate ==
    \/ ElevateSample
    \/ ElevateAssemble

-----------------------------------------------------------------------------
(***************************************************************************)
(* find_huc (hilev.py 432-518)                                             *)
(*                                                                         *)
(* A HUC code is the sequence of its two-digit groups, so that a code of   *)
(* 2 d digits is a sequence of length d.  The world is the segment         *)
(* [0, Fan^MaxDepth]: the units of 2 digits cut it into Fan equal parts    *)
(* and every unit is cut into Fan equal sub-units two digits longer.  A    *)
(* shape is a segment [lo, hi] with integer ends and lo < hi; the shrunk   *)
(* shape has the ends lo + s * delta and hi - s * delta, where delta > 0   *)
(* stands for the default shrink of 1.e-5 radius and s = 0 for             *)
(* shrink_factor = 0.  Units are closed: two neighbours share their        *)
(* boundary point, as two polygons share an edge.                          *)
(***************************************************************************)

\* the number of sub-units of a unit in the data of the source
Fan == 2

\* len(hint): the number of digits of a code
level(code) == 2 * Len(code)

\* the width of a unit of 2 d digits
Width(d) == Fan ^ (MaxDepth - d)

RECURSIVE West(_)
West(code) ==
    IF code = <<>> THEN 0
    ELSE West(SubSeq(code, 1, Len(code) - 1)) + (code[Len(code)] - 1) * Width(Len(code))

\* the geometry of the unit of a code
Unit(code) ==
    [lo |-> Num(West(code), 0), hi |-> Num(West(code) + Width(Len(code)), 0)]

Leq(a, b) == ~Less(b, a)

\* line 505: shply.buffer(-shrink_factor*radius)
buffer(shply, s) == [lo |-> Num(shply.lo, s), hi |-> Num(shply.hi, -s)]

\* shapely: no point of shply lies outside huc_shply (shply has an interior)
contains(huc_shply, shply) == Leq(huc_shply.lo, shply.lo) /\ Leq(shply.hi, huc_shply.hi)

\* shapely: the two share at least one point
intersects(huc_shply, shply) == Leq(shply.lo, huc_shply.hi) /\ Leq(huc_shply.lo, shply.hi)

\* lines 458-465
_in_huc(shply, huc_shply) ==
    IF contains(huc_shply, shply) THEN 2
    ELSE IF intersects(huc_shply, shply) THEN 1
    ELSE 0

\* source.get_hucs(hint, search_level): the sub-units the source lists for
\* hint, in the order of the source
get_hucs(src, code, search_level) ==
    [k \in 1..Len(src.order) |-> Append(code, src.order[k])]

\* inhuc == 0
HintTestDisjoint(inhuc) == inhuc = 0

\* line 514: inhuc is not 2 (CPython keeps one object for each small integer)
HintTest(inhuc) == inhuc # 2

\* sub_i += 0
NextSubhuSame(i) == i

\* line 478: the next iteration of the for loop
NextSubhu(i) == i + 1

Codes == UNION {[1..d -> 1..Fan] : d \in 1..MaxDepth}

\* the lists of sub-units: any of them, in any order, each at most once
Orders == {o \in SeqsUpTo(1..Fan, Fan) : \A j, k \in 1..Len(o) : j # k => o[j] # o[k]}

Sources == [lowest_level : {2 * d : d \in 1..MaxDepth}, order : Orders]

Shapes == {s \in [lo : 0..(Fan ^ MaxDepth), hi : 0..(Fan ^ MaxDepth)] : s.lo < s.hi}

NoShape == [lo |-> 0, hi |-> 0]

NoError == [type |-> None, hint |-> <<>>]

\* find_huc is not running
IdleFind ==
    /\ fpc = "idle"
    /\ source = [lowest_level |-> 0, order |-> <<>>]
    /\ shape = NoShape
    /\ shrink_factor = 0
    /\ hint = <<>>
    /\ shply_s = NoShape
    /\ search_hint = <<>>
    /\ subhus = <<>>
    /\ sub_i = 0
    /\ result = <<>>
    /\ find_raised = NoError
    /\ visited = <<>>

StartFind ==
    /\ fpc = "call"
    /\ source \in Sources
    /\ shape \in Shapes
    /\ shrink_factor \in {0, 1}
    /\ hint \in {c \in Codes : level(c) <= source.lowest_level}
    /\ shply_s = NoShape
    /\ search_hint = <<>>
    /\ subhus = <<>>
    /\ sub_i = 0
    /\ result = <<>>
    /\ find_raised = NoError
    /\ visited = <<>>

\* lines 498-517
FindCheckHint ==
    /\ fpc = "call"
    /\ LET s == buffer(shape, shrink_factor)
           inhuc == _in_huc(s, Unit(hint))
       IN /\ shply_s' = s
          /\ IF HintTest(inhuc)
             THEN /\ fpc' = "raised"
                  /\ find_raised' = [type |-> "RuntimeError", hint |-> hint]
                  /\ UNCHANGED search_hint
             ELSE /\ fpc' = "_find_huc"
                  /\ search_hint' = hint
                  /\ UNCHANGED find_raised
    /\ UNCHANGED <<source, shape, shrink_factor, hint, subhus, sub_i, result, visited>>
    /\ UNCHANGED notFind

\* lines 469-476, and 518 when the search ends here
FindEnter ==
    /\ fpc = "_find_huc"
    /\ LET search_level == level(search_hint) + 2
       IN IF search_level > source.lowest_level
          THEN /\ result' = search_hint
               /\ fpc' = "return_518"
               /\ UNCHANGED <<subhus, sub_i>>
          ELSE /\ subhus' = get_hucs(source, search_hint, search_level)
               /\ sub_i' = 1
               /\ fpc' = "loop"
               /\ UNCHANGED result
    /\ UNCHANGED <<source, shape, shrink_factor, hint, shply_s, search_hint,
                   find_raised, visited>>
    /\ UNCHANGED notFind

\* lines 478-495: one sub-unit of the loop
FindVisit ==
    /\ fpc = "loop"
    /\ sub_i <= Len(subhus)
    /\ LET hname == subhus[sub_i]
           inhuc == _in_huc(shply_s, Unit(hname))
       IN /\ visited' = Append(visited, hname)
          /\ IF inhuc = 2
             THEN /\ search_hint' = hname
                  /\ fpc' = "_find_huc"
                  /\ UNCHANGED <<sub_i, result>>
             ELSE IF inhuc = 1
             THEN /\ result' = search_hint
                  /\ fpc' = "return_518"
                  /\ UNCHANGED <<sub_i, search_hint>>
             ELSE /\ sub_i' = NextSubhu(sub_i)
                  /\ UNCHANGED <<fpc, search_hint, result>>
    /\ UNCHANGED <<source, shape, shrink_factor, hint, shply_s, subhus, find_raised>>
    /\ UNCHANGED notFind

\* line 496
FindAssert ==
    /\ fpc = "loop"
    /\ sub_i > Len(subhus)
    /\ fpc' = "raised"
    /\ find_raised' = [type |-> "AssertionError", hint |-> <<>>]
    /\ UNCHANGED <<source, shape, shrink_factor, hint, shply_s, search_hint, subhus,
                   sub_i, result, visited>>
    /\ UNCHANGED notFind

NextFind ==
    \/ FindCheckHint
    \/ FindEnter
    \/ FindVisit
    \/ FindAssert

-----------------------------------------------------------------------------
(***************************************************************************)
(* get_huc, get_hucs and get_split_form_hucs (hilev.py 59-173)             *)
(*                                                                         *)
(* A hydrologic unit is reduced to one coordinate, an integer count of     *)
(* units of 10^-MaxDigits; rounding to d <= MaxDigits digits makes it a    *)
(* multiple of 10^(MaxDigits - d).  The optional argument digits is <<>>   *)
(* when it is None or not given and <<d>> otherwise.                       *)
(***************************************************************************)

\* workflow.utils.round(hus, digits): every coordinate to `digits` decimal
\* places, a tie to the even neighbour
round(hs, d) ==
    LET m == 10 ^ (MaxDigits - d)
        one(c) == LET q == c \div m
                      r == c % m
                  IN IF 2 * r < m THEN q * m
                     ELSE IF 2 * r > m THEN (q + 1) * m
                     ELSE IF q % 2 = 0 THEN q * m ELSE (q + 1) * m
    IN [k \in 1..Len(hs) |-> one(hs[k])]

\* lines 135-136: the digits get_hucs rounds to
digits_or_default(d, rc) == IF d = NoArg THEN rc.digits ELSE d[1]

Digits == 0..MaxDigits

\* get_huc, get_hucs and get_split_form_hucs are not running
IdleHucs ==
    /\ gpc = "idle"
    /\ entry = None
    /\ digits = NoArg
    /\ rcParams = [digits |-> 0]
    /\ hus = <<>>
    /\ get_hucs_digits = NoArg
    /\ hu_shapes = <<>>

\* one of the three functions is called
StartHucs ==
    /\ entry \in {"get_huc", "get_hucs", "get_split_form_hucs"}
    /\ gpc = entry
    /\ digits \in {NoArg} \cup {<<d>> : d \in Digits}
    /\ rcParams \in [digits : Digits]
    /\ hus \in [1..1 -> 0..(10 ^ MaxDigits)]
    /\ get_hucs_digits = NoArg
    /\ hu_shapes = <<>>

\* lines 81-82: get_huc calls get_hucs(source, huc, len(huc), crs)
GetHucCalls ==
    /\ gpc = "get_huc"
    /\ get_hucs_digits' = NoArg
    /\ gpc' = "get_hucs_body"
    /\ UNCHANGED <<entry, digits, rcParams, hus, hu_shapes>>
    /\ UNCHANGED notHucs

\* line 172: get_split_form_hucs calls get_hucs(source, huc, level, crs)
GetSplitFormHucsCalls ==
    /\ gpc = "get_split_form_hucs"
    /\ get_hucs_digits' = NoArg
    /\ gpc' = "get_hucs_body"
    /\ UNCHANGED <<entry, digits, rcParams, hus, hu_shapes>>
    /\ UNCHANGED notHucs

\* get_hucs called by the user: its digits is the user's
GetHucsCalled ==
    /\ gpc = "get_hucs"
    /\ get_hucs_digits' = digits
    /\ gpc' = "get_hucs_body"
    /\ UNCHANGED <<entry, digits, rcParams, hus, hu_shapes>>
    /\ UNCHANGED notHucs

\* lines 112-141, then the return of the caller (lines 83-84 and 173)
GetHucsBody ==
    /\ gpc = "get_hucs_body"
    /\ hu_shapes' = round(hus, digits_or_default(get_hucs_digits, rcParams))
    /\ gpc' = CASE entry = "get_huc" -> "return_84"
                [] entry = "get_hucs" -> "return_141"
                [] OTHER -> "return_173"
    /\ UNCHANGED <<entry, digits, rcParams, hus, get_hucs_digits>>
    /\ UNCHANGED notHucs

NextHucs ==
    \/ GetHucCalls
    \/ GetSplitFormHucsCalls
    \/ GetHucsCalled
    \/ GetHucsBody

-----------------------------------------------------------------------------
(***************************************************************************)
(* get_reaches (hilev.py 265-339), from the filter of lines 335-339        *)
(*                                                                         *)
(* reaches_s is the list of shapely LineStrings after the merge of line    *)
(* 333; a reach is the record [id, length].  The optional argument long is *)
(* <<>> when it is None and <<l>> otherwise.                               *)
(***************************************************************************)

\* reach.length(): length is a property of a shapely geometry, a float, and
\* calling a float raises TypeError
length_call(reach) == [raised |-> "TypeError", value |-> None]

\* line 337: the list comprehension, which evaluates reach.length() < long
\* for each reach in turn
long_filter(rs, l) ==
    IF \E k \in 1..Len(rs) : length_call(rs[k]).raised # None
    THEN [raised |-> length_call(rs[1]).raised, out |-> None]
    ELSE [raised |-> None,
          out |-> SelectSeq(rs, LAMBDA r : length_call(r).value < l)]

Lengths == 1..(MaxLong + 1)

\* get_reaches is not running
IdleReaches ==
    /\ rpc = "idle"
    /\ reaches_s = <<>>
    /\ long = NoArg
    /\ reaches_out = None
    /\ reaches_raised = None

\* line 335 is reached with the merged reaches
StartReaches ==
    /\ rpc = "line_335"
    /\ \E ls \in SeqsUpTo(Lengths, MaxReaches) :
         reaches_s = [k \in 1..Len(ls) |-> [id |-> k, length |-> ls[k]]]
    /\ long \in {NoArg} \cup {<<l>> : l \in 0..MaxLong}
    /\ reaches_out = None
    /\ reaches_raised = None

\* lines 336 and 339: long is None
ReturnReaches ==
    /\ rpc = "line_335"
    /\ long = NoArg
    /\ reaches_out' = reaches_s
    /\ rpc' = "return_339"
    /\ UNCHANGED <<reaches_s, long, reaches_raised>>
    /\ UNCHANGED notReaches

\* lines 336-339: long is given
FilterLong ==
    /\ rpc = "line_335"
    /\ long # NoArg
    /\ LET res == long_filter(reaches_s, long[1])
       IN /\ reaches_out' = res.out
          /\ reaches_raised' = res.raised
          /\ rpc' = IF res.raised = None THEN "return_339" ELSE "raised"
    /\ UNCHANGED <<reaches_s, long>>
    /\ UNCHANGED notReaches

NextReaches ==
    \/ ReturnReaches
    \/ FilterLong

-----------------------------------------------------------------------------
(***************************************************************************)
(* The snap of simplify_and_prune (hilev.py 582-584)                       *)
(*                                                                         *)
(* The call of line 584 and what workflow.hydrography.snap does to river   *)
(* endpoints.  Coordinates are integers on a line; a river is one reach,   *)
(* the pair of its two endpoints; the boundary is the set of its vertices. *)
(* Where two vertices are equally near an endpoint, either may be chosen.  *)
(***************************************************************************)

\* snap called with the radius tol
snap_radius_tol(t) == t

\* line 584: the fourth argument of snap, 3*tol
snap_radius_arg(t) == 3 * t

distance(a, b) == IF a < b THEN b - a ELSE a - b

\* the boundary vertices within the radius of an endpoint
within_radius(e, vs, radius) == {v \in vs : distance(e, v) <= radius}

\* where snap may leave an endpoint: on a nearest vertex within the radius,
\* or where it was when there is none
snap_targets(e, vs, radius) ==
    LET near == within_radius(e, vs, radius)
    IN IF near = {} THEN {e}
       ELSE {v \in near : \A u \in near : distance(e, v) <= distance(e, u)}

Coordinates == 0..(3 * MaxTol + 1)

\* the snap of line 584 is not running
IdleSnap ==
    /\ wpc = "idle"
    /\ snap_tol = 0
    /\ snap_radius = 0
    /\ vertices = {}
    /\ endpoints = <<>>
    /\ welded = <<>>

\* line 582 is reached
StartSnap ==
    /\ wpc = "line_584"
    /\ snap_tol \in 1..MaxTol
    /\ snap_radius = 0
    /\ vertices \in {vs \in SUBSET Coordinates : Cardinality(vs) <= MaxVertices}
    /\ endpoints \in [1..2 -> Coordinates]
    /\ welded = <<>>

\* line 584: the call, binding the parameter snap_radius
SnapCall ==
    /\ wpc = "line_584"
    /\ snap_radius' = snap_radius_arg(snap_tol)
    /\ wpc' = "snap"
    /\ UNCHANGED <<snap_tol, vertices, endpoints, welded>>
    /\ UNCHANGED notSnap

\* workflow.hydrography.snap: the endpoints are welded onto the boundary
SnapEndpoints ==
    /\ wpc = "snap"
    /\ welded' \in [1..Len(endpoints) -> Coordinates]
    /\ \A k \in 1..Len(endpoints) :
         welded'[k] \in snap_targets(endpoints[k], vertices, snap_radius)
    /\ wpc' = "snapped"
    /\ UNCHANGED <<snap_tol, snap_radius, vertices, endpoints>>
    /\ UNCHANGED notSnap

NextSnap ==
    \/ SnapCall
    \/ SnapEndpoints

-----------------------------------------------------------------------------
(***************************************************************************)
(* The boundary simplification of simplify_and_prune (hilev.py 579-580)    *)
(*                                                                         *)
(* The SplitHUCs object of a row of polygons 1..n: polygon i owns the      *)
(* unique piece <<i, i>> and shares the piece <<i, i+1>> with its right    *)
(* neighbour.  A piece is a line, the sequence of the positions of its     *)
(* vertices along the wall, stored once in `segments`.  A polygon holds    *)
(* references; its boundary is derived from the stored pieces, and the     *)
(* polygon with the higher index walks a shared piece backwards.  The      *)
(* simplification of one line keeps its two ends and drops a vertex that   *)
(* is no further than the tolerance from the last vertex kept.             *)
(***************************************************************************)

Reverse(line) == [k \in 1..Len(line) |-> line[Len(line) + 1 - k]]

RECURSIVE simplify_from(_, _, _, _)
simplify_from(line, k, kept, t) ==
    IF k = Len(line) THEN Append(kept, line[k])
    ELSE IF distance(line[k], kept[Len(kept)]) > t
         THEN simplify_from(line, k + 1, Append(kept, line[k]), t)
         ELSE simplify_from(line, k + 1, kept, t)

\* the simplification of one line to a tolerance
simplify_line(line, t) == simplify_from(line, 2, <<line[1]>>, t)

\* the keys of the stored pieces of n polygons
PieceKeys(n) == {<<i, i>> : i \in 1..n} \cup {<<i, i + 1>> : i \in 1..(n - 1)}

\* the pieces polygon i refers to
references(i, n) == {key \in PieceKeys(n) : key[1] = i \/ key[2] = i}

\* the part of the boundary of polygon i made of a stored piece
wall(segs, key, i) == IF key[1] = i THEN segs[key] ELSE Reverse(segs[key])

\* all polygons, re-derived from the stored pieces
derive(segs, n) == [i \in 1..n |-> [key \in references(i, n) |-> wall(segs, key, i)]]

\* every polygon simplifies its own boundary
simplify_each_polygon(h, t) ==
    LET n == Len(h.polygons)
        own == [i \in 1..n |->
                  [key \in references(i, n) |-> simplify_line(h.polygons[i][key], t)]]
    IN [segments |-> [key \in PieceKeys(n) |-> own[key[1]][key]],
        polygons |-> own,
        passes |-> [key \in PieceKeys(n) |->
                      h.passes[key] + Cardinality({i \in 1..n : key \in references(i, n)})]]

\* workflow.split_hucs.simplify(hucs, tol): every stored piece is simplified
\* once and the polygons are re-derived from the simplified pieces
split_hucs_simplify(h, t) ==
    LET n == Len(h.polygons)
        segs == [key \in PieceKeys(n) |-> simplify_line(h.segments[key], t)]
    IN [segments |-> segs,
        polygons |-> derive(segs, n),
        passes |-> [key \in PieceKeys(n) |-> h.passes[key] + 1]]

\* the lines from 0 to MaxPiece, with any of the positions between as vertices
Lines ==
    {[k \in 1..(Cardinality(vs) + 2) |->
        IF k = 1 THEN 0
        ELSE IF k = Cardinality(vs) + 2 THEN MaxPiece
        ELSE CHOOSE v \in vs : Cardinality({u \in vs : u < v}) = k - 2] :
     vs \in SUBSET (1..(MaxPiece - 1))}

\* the boundary simplification is not running
IdleSplit ==
    /\ kpc = "idle"
    /\ split = [segments |-> <<>>, polygons |-> <<>>, passes |-> <<>>]
    /\ split_calls = 0
    /\ split_tol = 0

\* line 580 is reached with a SplitHUCs object as constructed from the polygons
StartSplit ==
    /\ kpc = "line_580"
    /\ \E n \in 2..MaxShapes :
         \E segs \in [PieceKeys(n) -> Lines] :
            split = [segments |-> segs,
                     polygons |-> derive(segs, n),
                     passes |-> [key \in PieceKeys(n) |-> 0]]
    /\ split_calls = 0
    /\ split_tol \in 1..MaxTol

\* line 580: workflow.split_hucs.simplify(hucs, tol)
SplitSimplify ==
    /\ kpc = "line_580"
    /\ split' = split_hucs_simplify(split, split_tol)
    /\ split_calls' = split_calls + 1
    /\ kpc' = "line_582"
    /\ UNCHANGED split_tol
    /\ UNCHANGED notSplit

\* a later call of simplify on the same object, with any tolerance
SplitSimplifyAgain ==
    /\ kpc = "line_582"
    /\ split_calls < MaxCalls
    /\ \E t \in 1..MaxTol :
         /\ split_tol' = t
         /\ split' = split_hucs_simplify(split, t)
    /\ split_calls' = split_calls + 1
    /\ UNCHANGED kpc
    /\ UNCHANGED notSplit

NextSplit ==
    \/ SplitSimplify
    \/ SplitSimplifyAgain

-----------------------------------------------------------------------------
(***************************************************************************)
(* go.py, lines 77-169: flattening, simplification and redistribution of   *)
(* the boundary pieces                                                     *)
(*                                                                         *)
(* A piece is None, a LineString or a MultiLineString; it is the record    *)
(* [type, segs] with segs the sequence of its LineStrings.  A LineString   *)
(* is named by where it comes from: <<"u", i, k>> is the k-th LineString   *)
(* of uniques[i], <<"x", i, j, k>> the k-th of intersections[i][j] and     *)
(* <<"r", k>> the k-th river; its simplification is [simplified |-> name]. *)
(* A LineString that split_spine gave a point to is [split |-> name].      *)
(***************************************************************************)

NonePiece == [type |-> "NoneType", segs |-> <<>>]

LineString(name) == [type |-> "LineString", segs |-> <<name>>]

MultiLineString(names) == [type |-> "MultiLineString", segs |-> names]

\* lines 80-85 and 88-93: the LineStrings one piece adds to all_segs
segments_of(s) ==
    IF s.type = "LineString" THEN s.segs
    ELSE IF s.type = "MultiLineString" THEN s.segs
    ELSE <<>>

RECURSIVE Concat(_)
Concat(ss) == IF ss = <<>> THEN <<>> ELSE Head(ss) \o Concat(Tail(ss))

\* lines 78-93: all_segs, from the uniques and then the intersections row by row
flatten(us, xs) ==
    Concat([i \in 1..Len(us) |-> segments_of(us[i])])
        \o Concat([i \in 1..Len(xs) |->
                     Concat([j \in 1..Len(xs[i]) |-> segments_of(xs[i][j])])])

\* line 109: list(all_segs.simplify(100))
simplify_segs(segs) == [k \in 1..Len(segs) |-> [simplified |-> segs[k]]]

\* the pieces a source can hold at a place: nothing, one line, or two lines
Pieces(place) ==
    {NonePiece, LineString(Append(place, 1)),
     MultiLineString(<<Append(place, 1), Append(place, 2)>>)}

\* the script is not running
IdleGo ==
    /\ gopc = "idle"
    /\ rivers_s = <<>>
    /\ uniques = <<>>
    /\ intersections = <<>>
    /\ all_segs = <<>>
    /\ all_segs_simp = <<>>
    /\ pos = None
    /\ go_raised = None

\* line 77 is reached: n polygons, their unique pieces, the pieces shared by
\* polygons i < j, and the merged rivers
StartGo ==
    /\ gopc = "line_77"
    /\ \E n \in 1..MaxShapes :
         /\ uniques \in {us \in [1..n -> UNION {Pieces(<<"u", i>>) : i \in 1..n}] :
                           \A i \in 1..n : us[i] \in Pieces(<<"u", i>>)}
         /\ \E shared \in [{ij \in (1..n) \X (1..n) : ij[1] < ij[2]} -> {0, 1, 2}] :
              intersections =
                [i \in 1..n |-> [j \in 1..n |->
                    IF i < j
                    THEN CASE shared[<<i, j>>] = 0 -> NonePiece
                           [] shared[<<i, j>>] = 1 -> LineString(<<"x", i, j, 1>>)
                           [] OTHER -> MultiLineString(<<<<"x", i, j, 1>>, <<"x", i, j, 2>>>>)
                    ELSE NonePiece]]
    /\ \E m \in 0..MaxNets : rivers_s = [k \in 1..m |-> <<"r", k>>]
    /\ all_segs = <<>>
    /\ all_segs_simp = <<>>
    /\ pos = None
    /\ go_raised = None

\* a LineString with a point added where a river crosses a boundary segment
with_point(seg) == [split |-> seg]

\* lines 95-99: workflow.hydrography.split_spine(all_segs, rivers_s) adds a
\* point at an intersection to both the river and the boundary segment, in
\* place; cross is <<>> when no river crosses a segment, or <<r, k>> when river
\* r crosses segment k.  The lists keep their lengths and their order.
split_spine(segs, rivs, cross) ==
    IF cross = <<>> THEN [all_segs |-> segs, rivers_s |-> rivs]
    ELSE [all_segs |-> [segs EXCEPT ![cross[2]] = with_point(@)],
          rivers_s |-> [rivs EXCEPT ![cross[1]] = with_point(@)]]

\* lines 77-101: the flattening, then split_spine on the two lists.  go.py
\* imports workflow.conf, smooth, download, triangulate, clip, warp and rowcol
\* (lines 9-15) and not workflow.hydrography: unless one of these imports it,
\* line 99 raises AttributeError.
GoFlatten ==
    /\ gopc = "line_77"
    /\ LET segs == flatten(uniques, intersections)
       IN \/ /\ all_segs' = segs
             /\ go_raised' = "AttributeError"
             /\ gopc' = "raised"
             /\ UNCHANGED rivers_s
          \/ \E cross \in {<<>>} \cup ((1..Len(rivers_s)) \X (1..Len(segs))) :
                LET after == split_spine(segs, rivers_s, cross)
                IN /\ all_segs' = after.all_segs
                   /\ rivers_s' = after.rivers_s
                   /\ gopc' = "line_105"
                   /\ UNCHANGED go_raised
    /\ UNCHANGED <<uniques, intersections, all_segs_simp, pos>>
    /\ UNCHANGED notGo

\* lines 105-111
GoSimplify ==
    /\ gopc = "line_105"
    /\ all_segs' = rivers_s \o all_segs
    /\ all_segs_simp' = simplify_segs(rivers_s \o all_segs)
    /\ gopc' = "line_113"
    /\ UNCHANGED <<rivers_s, uniques, intersections, pos, go_raised>>
    /\ UNCHANGED notGo

\* lines 113-121: for the first segment line 118 asks numpy for
\* np.linalg.norm2, which it does not have
GoMinDistance ==
    /\ gopc = "line_113"
    /\ IF Len(all_segs_simp) > 0
       THEN /\ go_raised' = "AttributeError"
            /\ gopc' = "raised"
       ELSE /\ gopc' = "line_125"
            /\ UNCHANGED go_raised
    /\ UNCHANGED <<rivers_s, uniques, intersections, all_segs, all_segs_simp, pos>>
    /\ UNCHANGED notGo

\* lines 123-125: intersect_and_split(shps), and no name shps is ever bound
GoIntersect ==
    /\ gopc = "line_125"
    /\ go_raised' = "NameError"
    /\ gopc' = "raised"
    /\ UNCHANGED <<rivers_s, uniques, intersections, all_segs, all_segs_simp, pos>>
    /\ UNCHANGED notGo

NextGo ==
    \/ GoFlatten
    \/ GoSimplify
    \/ GoMinDistance
    \/ GoIntersect

-----------------------------------------------------------------------------
(* The specifications: one function runs, the others are idle *)

InitClean ==
    /\ StartClean
    /\ IdleRefine
    /\ IdleSample
    /\ IdleColor
    /\ IdleElevate
    /\ IdleFind
    /\ IdleHucs
    /\ IdleReaches
    /\ IdleSnap
    /\ IdleSplit
    /\ IdleGo

SpecClean == InitClean /\ [][NextClean]_vars

InitRefine ==
    /\ IdleClean
    /\ StartRefine
    /\ IdleSample
    /\ IdleColor
    /\ IdleElevate
    /\ IdleFind
    /\ IdleHucs
    /\ IdleReaches
    /\ IdleSnap
    /\ IdleSplit
    /\ IdleGo

SpecRefine == InitRefine /\ [][NextRefine]_vars

InitSample ==
    /\ IdleClean
    /\ IdleRefine
    /\ StartSample
    /\ IdleColor
    /\ IdleElevate
    /\ IdleFind
    /\ IdleHucs
    /\ IdleReaches
    /\ IdleSnap
    /\ IdleSplit
    /\ IdleGo

SpecSample == InitSample /\ [][NextSample]_vars

InitColor ==
    /\ IdleClean
    /\ IdleRefine
    /\ IdleSample
    /\ StartColor
    /\ IdleElevate
    /\ IdleFind
    /\ IdleHucs
    /\ IdleReaches
    /\ IdleSnap
    /\ IdleSplit
    /\ IdleGo

SpecColor == InitColor /\ [][NextColor]_vars

InitElevate ==
    /\ IdleClean
    /\ IdleRefine
    /\ IdleSample
    /\ IdleColor
    /\ StartElevate
    /\ IdleFind
    /\ IdleHucs
    /\ IdleReaches
    /\ IdleSnap
    /\ IdleSplit
    /\ IdleGo

SpecElevate == InitElevate /\ [][NextElevate]_vars

InitFind ==
    /\ IdleClean
    /\ IdleRefine
    /\ IdleSample
    /\ IdleColor
    /\ IdleElevate
    /\ StartFind
    /\ IdleHucs
    /\ IdleReaches
    /\ IdleSnap
    /\ IdleSplit
    /\ IdleGo

SpecFind == InitFind /\ [][NextFind]_vars

InitHucs ==
    /\ IdleClean
    /\ IdleRefine
    /\ IdleSample
    /\ IdleColor
    /\ IdleElevate
    /\ IdleFind
    /\ StartHucs
    /\ IdleReaches
    /\ IdleSnap
    /\ IdleSplit
    /\ IdleGo

SpecHucs == InitHucs /\ [][NextHucs]_vars

InitReaches ==
    /\ IdleClean
    /\ IdleRefine
    /\ IdleSample
    /\ IdleColor
    /\ IdleElevate
    /\ IdleFind
    /\ IdleHucs
    /\ StartReaches
    /\ IdleSnap
    /\ IdleSplit
    /\ IdleGo

SpecReaches == InitReaches /\ [][NextReaches]_vars

InitSnap ==
    /\ IdleClean
    /\ IdleRefine
    /\ IdleSample
    /\ IdleColor
    /\ IdleElevate
    /\ IdleFind
    /\ IdleHucs
    /\ IdleReaches
    /\ StartSnap
    /\ IdleSplit
    /\ IdleGo

SpecSnap == InitSnap /\ [][NextSnap]_vars

InitSplit ==
    /\ IdleClean
    /\ IdleRefine
    /\ IdleSample
    /\ IdleColor
    /\ IdleElevate
    /\ IdleFind
    /\ IdleHucs
    /\ IdleReaches
    /\ IdleSnap
    /\ StartSplit
    /\ IdleGo

SpecSplit == InitSplit /\ [][NextSplit]_vars

InitGo ==
    /\ IdleClean
    /\ IdleRefine
    /\ IdleSample
    /\ IdleColor
    /\ IdleElevate
    /\ IdleFind
    /\ IdleHucs
    /\ IdleReaches
    /\ IdleSnap
    /\ IdleSplit
    /\ StartGo

SpecGo == InitGo /\ [][NextGo]_vars

Init ==
    \/ InitClean
    \/ InitRefine
    \/ InitSample
    \/ InitColor
    \/ InitElevate
    \/ InitFind
    \/ InitHucs
    \/ InitReaches
    \/ InitSnap
    \/ InitSplit
    \/ InitGo

Next ==
    \/ NextClean
    \/ NextRefine
    \/ NextSample
    \/ NextColor
    \/ NextElevate
    \/ NextFind
    \/ NextHucs
    \/ NextReaches
    \/ NextSnap
    \/ NextSplit
    \/ NextGo

Spec == Init /\ [][Next]_vars

-----------------------------------------------------------------------------
(* Claims about simplify_and_prune *)

StageOrder ==
    <<"filter_rivers_to_shape", "make_global_tree", "prune", "cleanup", "simplify", "snap">>

StageNames(l) == [k \in 1..Len(l) |-> l[k].stage]

IsPrefix(s, t) == Len(s) <= Len(t) /\ \A k \in 1..Len(s) : s[k] = t[k]

\* stage k+1 of the log was handed what stage k left
Chained(l) ==
    \A k \in 1..(Len(l) - 1) :
        /\ l[k + 1].rivers_in = l[k].rivers_out
        /\ l[k + 1].stage # "make_global_tree" => l[k + 1].hucs_in = l[k].hucs_out

\* C1: a call that runs to the final return has run filter_rivers_to_shape (on
\* the exterior of the boundary before its simplification), make_global_tree,
\* the pruning, cleanup, the boundary simplification and snap, once each and in
\* this order, each on what the stage before it left; at no time has a stage
\* run out of this order.
C1_StagesInOrder ==
    /\ IsPrefix(StageNames(log), StageOrder)
    /\ Chained(log)
    /\ Len(log) >= 1 => log[1].hucs_in = exterior(RawHucs)
    /\ pc = "return_606" => StageNames(log) = StageOrder /\ ret = log[6].rivers_out

C1_Witness ==
    /\ pc = "return_606"
    /\ Len(ret) >= 2
    /\ hucs.simplified /\ hucs.snapped

\* C2: when filtering leaves no reach, or pruning leaves no tree, the call is
\* at a return with an empty collection as its value, and no later stage has
\* run.
C2_EmptyIsTerminal ==
    /\ (Len(log) >= 1 /\ log[1].rivers_out = <<>>) =>
           /\ pc = "return_560"
           /\ ret = <<>>
           /\ Len(log) = 1
    /\ (Len(log) >= 3 /\ log[3].rivers_out = <<>>) =>
           /\ pc = "return_574"
           /\ ret = <<>>
           /\ Len(log) = 3

C2_Witness ==
    /\ pc = "return_574"
    /\ Len(log[3].rivers_in) >= 2
    /\ ret = <<>>

\* C3: after the pruning loop the forest holds exactly the trees whose reach
\* count is at least prune_reach_size, each whole and in the original order;
\* with prune_reach_size = 0 it is the forest make_global_tree built.
C3_PruneKeepsLargeTrees ==
    (Len(log) >= 3) =>
        /\ log[3].rivers_out =
               SelectSeq(log[2].rivers_out, LAMBDA t : Len(t.ids) >= prune_reach_size)
        /\ prune_reach_size = 0 => log[3].rivers_out = log[2].rivers_out

C3_Witness ==
    /\ Len(log) >= 3
    /\ Len(log[3].rivers_out) >= 1
    /\ Len(log[3].rivers_out) < Len(log[2].rivers_out)
    /\ \E k \in 1..Len(log[3].rivers_out) : Len(log[3].rivers_out[k].ids) = prune_reach_size

-----------------------------------------------------------------------------
(* Claims about the refinement predicate of triangulate *)

\* the criteria the caller supplied: one for each argument that is not None
Supplied ==
    (IF refine_max_area # NoArg THEN {refine_from_max_area(refine_max_area[1])} ELSE {})
    \cup (IF refine_distance # NoArg
          THEN {refine_from_river_distance(refine_distance[1], refine_distance[2],
                                           refine_distance[3], refine_distance[4])}
          ELSE {})
    \cup (IF refine_max_edge_length # NoArg
          THEN {refine_from_max_edge_length(refine_max_edge_length[1])} ELSE {})

\* C4: the predicate handed to the kernel answers true for a triangle if and
\* only if at least one of the criteria the caller supplied is true of it, and
\* its list holds exactly the supplied criteria.
C4_RefineIsOrOfSupplied ==
    /\ tpc \in {"kernel", "asked"} => Range(refine_funcs) = Supplied
    /\ tpc = "asked" => (needs_refine <=> \E rf \in Supplied : Call(rf, tri))

C4_Witness ==
    /\ tpc = "asked"
    /\ needs_refine
    /\ Len(refine_funcs) = 3
    /\ Call(refine_funcs[3], tri)
    /\ ~Call(refine_funcs[1], tri)
    /\ ~Call(refine_funcs[2], tri)

OnlyDistance ==
    /\ refine_distance # NoArg
    /\ refine_max_area = NoArg
    /\ refine_max_edge_length = NoArg

\* C5: with refine_distance = [near_d, near_a, far_d, far_a], near_d < far_d,
\* as the only criterion, a triangle of area a whose centroid is at distance d
\* of the rivers is refined iff a > near_a when d < near_d, a > far_a when
\* d > far_d, and a > near_a + (far_a - near_a) (d - near_d) / (far_d - near_d)
\* in between; at d = near_d the ceiling is near_a and at d = far_d it is far_a.
C5_PiecewiseLinearCeiling ==
    (tpc = "asked" /\ OnlyDistance) =>
        LET near_d == refine_distance[1]
            near_a == refine_distance[2]
            far_d == refine_distance[3]
            far_a == refine_distance[4]
            d == tri.dist
            a == tri.area
        IN /\ d < near_d => (needs_refine <=> a > near_a)
           /\ d > far_d => (needs_refine <=> a > far_a)
           /\ (near_d <= d /\ d <= far_d) =>
                  (needs_refine <=>
                      a * (far_d - near_d)
                          > near_a * (far_d - near_d) + (far_a - near_a) * (d - near_d))
           /\ d = near_d => (needs_refine <=> a > near_a)
           /\ d = far_d => (needs_refine <=> a > far_a)

C5_Witness ==
    /\ tpc = "asked"
    /\ OnlyDistance
    /\ refine_distance[1] < tri.dist
    /\ tri.dist < refine_distance[3]
    /\ refine_distance[2] < tri.area
    /\ tri.area <= refine_distance[4]
    /\ needs_refine

-----------------------------------------------------------------------------
(* Claims about values_from_raster *)

Returned == spc = "return_817"

Ended == spc \in {"return_817", "raised"}

\* the point at the centre of pixel (r, c)
Centre(profile, r, c) ==
    LET t == profile.transform
    IN <<2 * t.west + (2 * c + 1) * t.dx, 2 * t.north - (2 * r + 1) * t.dx>>

InGrid(rc, profile) ==
    /\ 0 <= rc[1] /\ rc[1] <= profile.height - 1
    /\ 0 <= rc[2] /\ rc[2] <= profile.width - 1

\* the inverse-transformed (row, col) of the point lies outside
\* [0, height) x [0, width)
Outside(profile, p) ==
    LET ji == invtransform(profile, p)
        q == Q(profile)
    IN \/ ji.row.n < 0 \/ ji.row.n >= profile.height * q
       \/ ji.col.n < 0 \/ ji.col.n >= profile.width * q

\* C6: sampled with 'piecewise bilinear' at the centre of pixel (r, c), first
\* and last rows and columns included, values_from_raster returns exactly
\* raster[r, c].
C6_BilinearExactAtCentres ==
    (Returned /\ algorithm = "piecewise bilinear") =>
        \A r \in 0..(raster_profile.height - 1), c \in 0..(raster_profile.width - 1) :
            xy = Centre(raster_profile, r, c) =>
                out = Exact(raster[r][c], Q(raster_profile))

\* C7: in the 'piecewise bilinear' branch, for every raster of height >= 1 and
\* width >= 1 and every point, the four neighbour indices lie in
\* [0, height-1] x [0, width-1] and no read falls outside the grid.
C7_NeighboursInGrid ==
    (Ended /\ algorithm = "piecewise bilinear") =>
        /\ raised = None
        /\ \A rc \in reads : InGrid(rc, raster_profile)

\* C8: for each algorithm, a point outside the grid is clamped to the grid
\* boundary: the call does not fail and reads no pixel through an
\* out-of-range or negative index.
C8_OutsideIsClamped ==
    (Ended /\ Outside(raster_profile, xy)) =>
        /\ raised = None
        /\ \A rc \in reads : InGrid(rc, raster_profile)

-----------------------------------------------------------------------------
(* Claims about color_raster_from_shapes *)

\* the shapes among the first k that cover pixel (r, c)
Covering(k, r, c) ==
    {n \in 1..k : geometry_mask(shapes[n], out_profile, r, c)}

Last(K) == CHOOSE n \in K : \A m \in K : m <= n

Pixels == (0..(out_profile.height - 1)) \X (0..(out_profile.width - 1))

\* C9: once k shapes are painted, every pixel holds the color of the last of
\* these k shapes that covers it, and nodata if none does; so painting a shape
\* leaves the pixels it does not cover as they were, and the returned raster
\* holds for each pixel the color of the last shape of the list covering it.
C9_PaintersAlgorithm ==
    (cpc \in {"paint", "return_890"}) =>
        /\ \A px \in Pixels :
              LET K == Covering(shape_k, px[1], px[2])
              IN out_colors[px[1]][px[2]] =
                     IF K = {} THEN nodata ELSE shape_colors[Last(K)]
        /\ cpc = "return_890" => shape_k = Len(shapes)

C9_Witness ==
    /\ cpc = "return_890"
    /\ Len(shapes) = 2
    /\ shape_colors[1] # shape_colors[2]
    /\ \E px \in Pixels : Covering(2, px[1], px[2]) = {1, 2}
    /\ \E px \in Pixels : Covering(2, px[1], px[2]) = {1}
    /\ \E px \in Pixels : Covering(2, px[1], px[2]) = {}

\* C10: the grid is the target bounds rounded outward to whole pixels:
\* out_xmin <= xmin, out_ymin <= ymin, out_xmax >= xmax, out_ymax >= ymax, and
\* its extent is width * dx by height * dx.
C10_GridCoversTarget ==
    (cpc \in {"paint", "return_890"}) =>
        /\ out_bounds[1] <= target_bounds[1]
        /\ out_bounds[2] <= target_bounds[2]
        /\ out_bounds[3] >= target_bounds[3]
        /\ out_bounds[4] >= target_bounds[4]
        /\ out_bounds[3] - out_bounds[1] = out_profile.width * target_dx
        /\ out_bounds[4] - out_bounds[2] = out_profile.height * target_dx

-----------------------------------------------------------------------------
(* Claims about elevate *)

\* C11: elevate returns one row <<x_k, y_k, z_k>> for each row k of
\* mesh_points, in the same order, with x_k and y_k copied from the input and
\* z_k the k-th value of values_from_raster for the same points, raster and
\* algorithm; no step of elevate changes mesh_points or the raster.
C11_ElevateAppendsZ ==
    /\ [](epc = "return_758" =>
            LET v == values_from_raster(mesh_points, dem, dem_profile, elev_algorithm)
            IN /\ Len(elevated) = Len(mesh_points)
               /\ \A k \in 1..Len(mesh_points) :
                    elevated[k] = <<mesh_points[k][1], mesh_points[k][2], v.out[k]>>)
    /\ [][mesh_points' = mesh_points /\ dem' = dem /\ dem_profile' = dem_profile]_vars

\* two vertices were elevated to different heights
C11_Witness ==
    /\ epc = "return_758"
    /\ Len(mesh_points) = 2
    /\ elevated[1][3] # elevated[2][3]

-----------------------------------------------------------------------------
(* Claims about find_huc *)

\* C12: whenever the shrunk shape is not fully contained in the hinted HUC,
\* be it partly outside or disjoint from it, find_huc raises a RuntimeError
\* naming the hint, returns no code and has not looked at any sub-unit.
C12_NotInHintIsFatal ==
    (fpc # "call" /\ _in_huc(shply_s, Unit(hint)) # 2) =>
        /\ fpc = "raised"
        /\ find_raised = [type |-> "RuntimeError", hint |-> hint]
        /\ result = <<>>
        /\ search_hint = <<>>
        /\ subhus = <<>>
        /\ visited = <<>>

\* the shape lies partly in the hinted HUC and the call has failed
C12_Witness ==
    /\ fpc = "raised"
    /\ _in_huc(shply_s, Unit(hint)) = 1

\* the sub-units the source lists for a code, down to lowest_level
Subunits(code) ==
    IF level(code) + 2 > source.lowest_level THEN {}
    ELSE Range(get_hucs(source, code, level(code) + 2))

\* C13: the code find_huc returns starts with the hint, its unit fully
\* contains the shape and none of its sub-units two digits longer does,
\* whatever the order in which the source lists sub-units.
C13_SmallestContaining ==
    fpc = "return_518" =>
        /\ IsPrefix(hint, result)
        /\ contains(Unit(result), shply_s)
        /\ \A sub \in Subunits(result) : ~contains(Unit(sub), shply_s)

NoDuplicates(s) == \A j, k \in 1..Len(s) : j # k => s[j] # s[k]

\* the source lists every sub-unit of a unit
SubunitsCover == Range(source.order) = 1..Fan

\* what is left of the search: the levels below the current hint, then the
\* sub-units of the current level not yet visited
Rank ==
    LET K == Len(source.order) + 3
        R == (source.lowest_level - level(search_hint)) \div 2
    IN CASE fpc = "call" -> (MaxDepth + 1) * K
         [] fpc = "_find_huc" -> R * K + K - 1
         [] fpc = "loop" -> R * K + Len(subhus) - sub_i + 2
         [] OTHER -> 0

\* C19: the search of find_huc terminates: every step of it lowers Rank, a
\* descent goes to a listed sub-unit exactly two digits longer than the
\* current hint, a _find_huc whose hint has no level below it within
\* lowest_level returns that hint, no sub-unit is visited twice, and when the
\* source lists every sub-unit the assert(False) after the loop is not reached.
C19_SearchTerminates ==
    /\ [](/\ NoDuplicates(visited)
          /\ fpc \in {"_find_huc", "loop"} => level(search_hint) <= source.lowest_level
          /\ SubunitsCover => find_raised.type # "AssertionError")
    /\ [][/\ Rank' < Rank
          /\ (fpc # "call" /\ search_hint' # search_hint) =>
                /\ search_hint' \in Range(subhus)
                /\ IsPrefix(search_hint, search_hint')
                /\ level(search_hint') = level(search_hint) + 2
          /\ (fpc = "_find_huc" /\ level(search_hint) + 2 > source.lowest_level) =>
                fpc' = "return_518" /\ result' = search_hint]_vars

\* the search went down two levels, past a sub-unit that does not hold the shape
C19_Witness ==
    /\ fpc = "return_518"
    /\ level(result) = level(hint) + 4
    /\ Len(visited) >= 3

-----------------------------------------------------------------------------
(* Claims about get_huc, get_hucs and get_split_form_hucs *)

\* C14: whichever of get_huc, get_hucs and get_split_form_hucs is called, a
\* digits argument that is not None is the number of digits the returned
\* coordinates are rounded to, and rcParams['digits'] is used only when the
\* argument is None.
C14_DigitsHonoured ==
    gpc \in {"return_84", "return_141", "return_173"} =>
        hu_shapes = round(hus, IF digits = NoArg THEN rcParams.digits ELSE digits[1])

-----------------------------------------------------------------------------
(* Claims about get_reaches *)

\* C15: get_reaches returns the reaches whose length is at most long, in
\* their order, and drops exactly those longer than long; with long None it
\* returns every reach.
C15_LongFilter ==
    rpc # "line_335" =>
        /\ rpc = "return_339"
        /\ reaches_out = SelectSeq(reaches_s, LAMBDA r : long = NoArg \/ r.length <= long[1])

-----------------------------------------------------------------------------
(* Claims about the snap of simplify_and_prune *)

\* C16: simplify_and_prune calls snap with snap_radius = 3 * tol; after the
\* snap every river endpoint that had a boundary vertex within 3 * tol lies
\* exactly on a boundary vertex nearest to where it was, and every other
\* endpoint is where it was.
C16_SnapExactness ==
    (wpc = "snapped") =>
        /\ snap_radius = 3 * snap_tol
        /\ \A k \in 1..Len(endpoints) :
             IF \E v \in vertices : distance(endpoints[k], v) <= 3 * snap_tol
             THEN /\ welded[k] \in vertices
                  /\ \A u \in vertices :
                       distance(endpoints[k], welded[k]) <= distance(endpoints[k], u)
             ELSE welded[k] = endpoints[k]

\* one endpoint was moved further than tol onto the nearer of two vertices
\* within the radius, the other had no vertex within the radius and stayed
C16_Witness ==
    /\ wpc = "snapped"
    /\ Cardinality(within_radius(endpoints[1], vertices, snap_radius)) = 2
    /\ distance(endpoints[1], welded[1]) > snap_tol
    /\ within_radius(endpoints[2], vertices, snap_radius) = {}
    /\ welded[2] = endpoints[2]

-----------------------------------------------------------------------------
(* Claims about the boundary simplification *)

\* C17: after any number of simplify calls every stored piece has been
\* simplified once per call, however many polygons refer to it, and two
\* adjacent polygons hold the same wall: each holds the stored shared piece,
\* the one walked forwards and the other backwards.
C17_NoCrack ==
    LET n == Len(split.polygons)
    IN /\ \A key \in PieceKeys(n) : split.passes[key] = split_calls
       /\ \A i \in 1..(n - 1) :
            /\ split.polygons[i][<<i, i + 1>>] = split.segments[<<i, i + 1>>]
            /\ split.polygons[i + 1][<<i, i + 1>>] = Reverse(split.polygons[i][<<i, i + 1>>])

\* two calls were made and a shared piece is left with a vertex that a
\* simplification walking from its other end would drop
C17_Witness ==
    /\ split_calls = 2
    /\ \E i \in 1..(Len(split.polygons) - 1) :
         LET piece == split.segments[<<i, i + 1>>]
         IN Len(piece) = 3 /\ piece # Reverse(simplify_line(Reverse(piece), 1))

-----------------------------------------------------------------------------
(* Refinement and the threshold refine_max_area *)

\* The part of C18 that is about the criteria: a triangle that the max-area
\* criterion marks under the threshold A is marked under every A' <= A, and
\* so is a triangle that my_refine_func marks, the other arguments being the
\* same.  (How many triangles the kernel then makes is not modelled.)
MaxAreaMarksMonotone ==
    (tpc = "asked" /\ refine_max_area # NoArg) =>
        \A A2 \in 0..refine_max_area[1] :
            /\ Call(refine_from_max_area(refine_max_area[1]), tri)
                  => Call(refine_from_max_area(A2), tri)
            /\ needs_refine
                  => my_refine_func(BuildRefineFuncs(<<A2>>, refine_distance,
                                                     refine_max_edge_length), tri)

-----------------------------------------------------------------------------
(* Claims about go.py *)

\* C20: the script hands every simplified segment back: it ends past the
\* assertion of line 169 with the cursor pos at the number of simplified
\* segments that are left once the rivers are popped, which is the number of
\* segments that the uniques and the intersections gave to the flattening.
C20_RedistributionInverse ==
    gopc \in {"raised", "line_171"} =>
        /\ gopc = "line_171"
        /\ pos = Len(all_segs_simp) - Len(rivers_s)
        /\ pos = Len(flatten(uniques, intersections))

-----------------------------------------------------------------------------
(* The boundary on the early returns of simplify_and_prune *)

\* C21: when simplify_and_prune returns early, at line 560 because no reach
\* survived the filter or at line 574 because no tree survived the pruning,
\* hucs is as it was passed in: not simplified, not snapped and not cut.
C21_EarlyReturnLeavesHucs ==
    pc \in {"return_560", "return_574"} =>
        /\ hucs = RawHucs
        /\ ~hucs.simplified /\ ~hucs.snapped /\ ~hucs.cut
        /\ \A k \in 1..Len(log) : log[k].hucs_out = log[k].hucs_in

\* an early return after the pruning, in a call that asked for the cut
C21_Witness ==
    /\ pc = "return_574"
    /\ cut_intersections
    /\ Len(reaches) >= 1
    /\ hucs = RawHucs

-----------------------------------------------------------------------------
(* The combined predicate of triangulate as a function of its arguments *)

\* C22: with refine_max_area, refine_distance and refine_max_edge_length all
\* None the combined predicate answers false for every triangle; and for any
\* fixed criteria it is a pure function of its arguments: a call changes
\* neither the list of criteria nor the arguments of triangulate, whatever
\* was asked before, and its answer is the one fixed by the criteria and the
\* triangle alone.
C22_PredicateIsPure ==
    /\ [](/\ tpc = "asked" /\ refine_max_area = NoArg /\ refine_distance = NoArg
                /\ refine_max_edge_length = NoArg
             => ~needs_refine
          /\ tpc = "asked" =>
                needs_refine = AnyOf(BuildRefineFuncs(refine_max_area, refine_distance,
                                                      refine_max_edge_length), tri))
    /\ [][tpc # "build" =>
             UNCHANGED <<refine_funcs, refine_max_area, refine_distance,
                         refine_max_edge_length>>]_vars

\* no criterion was supplied and the predicate was asked about a triangle
\* that every criterion of the bounds would refine
C22_Witness ==
    /\ tpc = "asked"
    /\ refine_max_area = NoArg
    /\ refine_distance = NoArg
    /\ refine_max_edge_length = NoArg
    /\ refine_funcs = <<>>
    /\ tri.area > MaxArea
    /\ tri.edge > MaxEdge
    /\ ~needs_refine

====
